---- MODULE Spec2Model ----
(***************************************************************************)
(* A model of OpenVideoPlayerSlider (src/OpenVideoPlayer.js), the ranged   *)
(* slider of the open-video-player widget, with the geometry cache         *)
(* OpenVideoPlayerUtils.CachedBBox it reads its pixel geometry from.       *)
(*                                                                         *)
(* JavaScript numbers are modelled as exact fractions <<n, d>> in lowest   *)
(* terms with d > 0, extended with the three IEEE specials the code can    *)
(* compute: NaN = <<0, 0>>, +Infinity = <<1, 0>>, -Infinity = <<-1, 0>>.   *)
(* Binary rounding error and the sign of zero are not modelled.  null is   *)
(* the empty tuple.                                                        *)
(***************************************************************************)
EXTENDS Integers, Sequences, FiniteSets, TLC

VARIABLES
    range,              \* #range: <<min, max, step>>
    rawValue,           \* #rawValue
    ghostSliderValue,   \* #ghostSliderValue: a number or Null
    lastChange,         \* #lastChange: <<value, ghostValue>> or Null
    sliding,            \* the container carries the class "sliding"
    elemBox,            \* what getBoundingClientRect() returns now: <<left, top, width, height>>
    containerBBox,      \* contBBox.#bbox, the cached box of the container
    sliderPaddingBBox,  \* sliderPaddingBBox.#bbox, the cached box of the padded region, or Null
    style,              \* <<width of the progress fill = left of the pointer, width of the ghost or Null (display: none)>>
    events,             \* the events the last operation dispatched, in order
    op,                 \* the last operation: [name, arg, again]
    player              \* the player around the slider: [volumeListener, muted, volume,
                        \* sources, blank, timeListener, seek, freezeControls, other,
                        \* infos, controls, paused, thumbnail, videoInfo]

vars == <<range, rawValue, ghostSliderValue, lastChange, sliding, elemBox,
          containerBBox, sliderPaddingBBox, style, events, op, player>>

-----------------------------------------------------------------------------
(* Bounds of the model. *)

\* Pointer x coordinates are drawn from -1 .. MaxX.
MaxX == 3
\* Pointer y coordinates are drawn from 0 .. MaxY.
MaxY == 1

-----------------------------------------------------------------------------
(* JavaScript numbers. *)

Null == <<>>
NaN == <<0, 0>>
PInf == <<1, 0>>
NInf == <<-1, 0>>

\* The arithmetic operators bind each argument once, in a singleton set, before
\* they use it: an operator's argument is otherwise evaluated at each of its uses.
Only(S) == CHOOSE v \in S : TRUE

Abs(n) == IF n < 0 THEN -n ELSE n

RECURSIVE GCD(_, _)
GCD(a, b) == IF b = 0 THEN a ELSE GCD(b, a % b)

\* The fraction n/d (d # 0) in lowest terms with a positive denominator.
Frac(n, d) ==
    Only({<<(s * n0) \div g, (s * d0) \div g>>
          : <<n0, d0, s, g>> \in {<<n1, d1, IF d1 < 0 THEN -1 ELSE 1, GCD(Abs(n1), Abs(d1))>>
                                   : n1 \in {n}, d1 \in {d}}})

Num(n) == <<n, 1>>

IsNaN(a) == a = NaN
IsFinite(a) == a[2] # 0
Sgn(a) == IF a[1] > 0 THEN 1 ELSE IF a[1] < 0 THEN -1 ELSE 0
Inf(s) == IF s > 0 THEN PInf ELSE NInf

\* a < b as JavaScript evaluates it: false when either is NaN.
Lt(a, b) ==
    /\ ~IsNaN(a)
    /\ ~IsNaN(b)
    /\ IF IsFinite(a) /\ IsFinite(b) THEN a[1] * b[2] < b[1] * a[2]
       ELSE a # b /\ (a = NInf \/ b = PInf)

Le(a, b) == ~IsNaN(a) /\ ~IsNaN(b) /\ (a = b \/ Lt(a, b))

Neg(x) == Only({<<-a[1], a[2]>> : a \in {x}})

Add(x, y) ==
    Only({IF IsNaN(a) \/ IsNaN(b) THEN NaN
          ELSE IF IsFinite(a) /\ IsFinite(b)
               THEN Frac(a[1] * b[2] + b[1] * a[2], a[2] * b[2])
          ELSE IF ~IsFinite(a) /\ ~IsFinite(b) THEN (IF a = b THEN a ELSE NaN)
          ELSE IF ~IsFinite(a) THEN a ELSE b : a \in {x}, b \in {y}})

Sub(x, y) == Add(x, Neg(y))

Mul(x, y) ==
    Only({IF IsNaN(a) \/ IsNaN(b) THEN NaN
          ELSE IF IsFinite(a) /\ IsFinite(b) THEN Frac(a[1] * b[1], a[2] * b[2])
          ELSE IF Sgn(a) = 0 \/ Sgn(b) = 0 THEN NaN
          ELSE Inf(Sgn(a) * Sgn(b)) : a \in {x}, b \in {y}})

Div(x, y) ==
    Only({IF IsNaN(a) \/ IsNaN(b) THEN NaN
          ELSE IF ~IsFinite(b) THEN (IF IsFinite(a) THEN Num(0) ELSE NaN)
          ELSE IF Sgn(b) = 0 THEN (IF Sgn(a) = 0 THEN NaN ELSE Inf(Sgn(a)))
          ELSE IF IsFinite(a) THEN Frac(a[1] * b[2], a[2] * b[1])
          ELSE Inf(Sgn(a) * Sgn(b)) : a \in {x}, b \in {y}})

\* Math.max, Math.min: NaN when either argument is NaN.
MathMax(x, y) ==
    Only({IF IsNaN(a) \/ IsNaN(b) THEN NaN ELSE IF Lt(a, b) THEN b ELSE a
          : a \in {x}, b \in {y}})
MathMin(x, y) ==
    Only({IF IsNaN(a) \/ IsNaN(b) THEN NaN ELSE IF Lt(b, a) THEN b ELSE a
          : a \in {x}, b \in {y}})

\* Math.round: the nearest integer, halves towards +Infinity, that is floor(a + 1/2).
MathRound(x) ==
    Only({IF ~IsFinite(a) THEN a ELSE Num((2 * a[1] + a[2]) \div (2 * a[2]))
          : a \in {x}})

\* Math.floor
MathFloor(x) ==
    Only({IF ~IsFinite(a) THEN a ELSE Num(a[1] \div a[2]) : a \in {x}})

\* a === b for two values that are numbers or null.
StrictEq(a, b) == a = b /\ ~IsNaN(a)

-----------------------------------------------------------------------------
(* OpenVideoPlayerUtils. *)

Left(b) == b[1]
Top(b) == b[2]
Width(b) == b[3]
Height(b) == b[4]
Right(b) == b[1] + b[3]
Bottom(b) == b[2] + b[4]

\* isPointWithinBBox with all four comparisons strict.
isPointStrictlyWithinBBox(bbox, pointX, pointY) ==
    /\ Left(bbox) < pointX
    /\ Top(bbox) < pointY
    /\ Right(bbox) > pointX
    /\ Bottom(bbox) > pointY

isPointWithinBBox(bbox, pointX, pointY) ==
    /\ Left(bbox) <= pointX
    /\ Top(bbox) <= pointY
    /\ Right(bbox) > pointX
    /\ Bottom(bbox) > pointY

clamp(x, leftBoundary, rightBoundary) == MathMax(leftBoundary, MathMin(x, rightBoundary))

\* CachedBBox.value: the cached box, fetched from the element when there is none.
CachedValue(bbox) == IF bbox # Null THEN bbox ELSE elemBox

-----------------------------------------------------------------------------
(* Inputs. *)

ClientXs == -1 .. MaxX
ClientYs == 0 .. MaxY

\* getBoundingClientRect() of a detached or undisplayed element.
ZeroBox == <<0, 0, 0, 0>>
\* The boxes the slider's track may occupy: <<left, top, width, height>>.
Boxes == {ZeroBox, <<0, 0, 2, 1>>, <<1, 0, 2, 1>>}

\* A displayed track 100 px wide and 2 px high whose left edge is 10 px into the
\* viewport, and pointer coordinates around it: x left of it, on its left edge,
\* 37 px into it, on its right edge, right of it; y above it, on its top edge,
\* inside it, on its bottom edge.
TrackBox == <<10, 0, 100, 2>>
TrackBoxes == {ZeroBox, TrackBox}
TrackXs == {0, 10, 47, 110, 120}
TrackYs == {-1, 0, 1, 2}

DefaultRange == <<Num(0), Num(100), Num(1)>>
\* Ranges with min < max and step > 0.
ValidRanges ==
    {DefaultRange,
     <<Num(0), Num(10), Num(1)>>,
     <<Num(0), Num(1), Frac(1, 20)>>,
     <<Num(1), Num(5), Num(2)>>}
\* Ranges with min >= max or step <= 0.
InvalidRanges ==
    {<<Num(0), Num(0), Num(1)>>}

\* Arguments of `slider.rawValue = x`.
RawInputs == {Frac(-1, 2), Frac(37, 100), Num(2)}
\* Arguments of `slider.value = v`.
ValueInputs == {Num(-4), Frac(1, 2), Frac(13, 25), Num(5)}

\* video.duration at a durationchange event: an empty media resource, a clip of
\* two seconds.
Durations == {Num(0), Num(2)}
\* video.currentTime at a durationchange event.
CurrentTimes == {Num(1)}

-----------------------------------------------------------------------------
(* OpenVideoPlayerSlider: the accessors. *)

\* #adjustValue with Math.floor in the place of Math.round.
adjustValueFloors(newValue, rng) ==
    Only({clamp(Div(MathFloor(Mul(newValue, multiplier)), multiplier), rng[1], rng[2])
          : multiplier \in {Div(Num(1), rng[3])}})

adjustValue(newValue, rng) ==
    Only({clamp(Div(MathRound(Mul(newValue, multiplier)), multiplier), rng[1], rng[2])
          : multiplier \in {Div(Num(1), rng[3])}})

\* get value
Value(raw, rng) == adjustValue(Add(rng[1], Mul(raw, Sub(rng[2], rng[1]))), rng)

\* get ghostValue
GhostValue(ghost, rng) ==
    IF ghost = Null THEN Null
    ELSE adjustValue(Add(rng[1], Mul(ghost, Sub(rng[2], rng[1]))), rng)

\* set value: the RawPosition of the quantized value.
valueToRaw(newValue, rng) ==
    Div(Sub(adjustValue(newValue, rng), rng[1]), Sub(rng[2], rng[1]))

value == Value(rawValue, range)
ghostValue == GhostValue(ghostSliderValue, range)

\* getRange(): a copy of #range.
getRange(rng) == <<rng[1], rng[2], rng[3]>>

\* getRange() that returns #range itself.
getRangeObjectLive(rng) == [internal |-> TRUE, value |-> rng]

\* The object getRange() returns, {...this.#range}: a new object that has the
\* properties of #range, not the object #range refers to.
getRangeObject(rng) == [internal |-> FALSE, value |-> getRange(rng)]

-----------------------------------------------------------------------------
(* OpenVideoPlayerSlider: the change evaluation. *)

\* #resizeElements: the pixel sizes written to the sub-elements' styles.
resizeElements(raw, ghost, bbox) ==
    Only({<<clamp(Mul(raw, w), Num(0), w),
            IF ghost = Null THEN Null ELSE clamp(Mul(ghost, w), Num(0), w)>>
          : w \in {Num(Width(bbox))}})

\* The early return of #onChange: the pair is the one last notified.
Unchanged(lc, val, ghostVal) ==
    lc # Null /\ StrictEq(lc[1], val) /\ StrictEq(lc[2], ghostVal)

\* The event of an #onChange whose flags only compare with #lastChange, and
\* are false when there is none.
ChangedEventComparesOnly(lc, val, ghostVal) ==
    [type |-> "change",
     value |-> val,
     ghostValue |-> ghostVal,
     valueHasChanged |-> (lc # Null /\ ~StrictEq(lc[1], val)),
     ghostValueHasChanged |-> (lc # Null /\ ~StrictEq(lc[2], ghostVal))]

\* The OpenVideoPlayerSliderChanged event #onChange dispatches.
ChangedEvent(lc, val, ghostVal) ==
    [type |-> "change",
     value |-> val,
     ghostValue |-> ghostVal,
     valueHasChanged |-> (lc = Null \/ ~StrictEq(lc[1], val)),
     ghostValueHasChanged |-> (lc = Null \/ ~StrictEq(lc[2], ghostVal))]

\* #onChange after #resizeElements: the new #lastChange and the events dispatched.
onChangeResult(raw, ghost, rng, lc) ==
    Only({IF Unchanged(lc, val, ghostVal)
          THEN [lastChange |-> lc, events |-> <<>>]
          ELSE [lastChange |-> <<val, ghostVal>>,
                events |-> <<ChangedEvent(lc, val, ghostVal)>>]
          : val \in {Value(raw, rng)}, ghostVal \in {GhostValue(ghost, rng)}})

\* The player's info boxes.
InfoBoxes == {"volume", "back", "forward"}

\* The ids setTimeout returns: positive integers, an id never that of a timer
\* still pending; 0 stands for the null of #hideTimeout.
MaxTimerId == 4
TimerIds == 1 .. MaxTimerId

\* An OpenVideoPlayerInfoBox after its constructor, with the timers the
\* browser holds for it.
NewInfoBox == [hideTimeout |-> 0, shown |-> FALSE, timers |-> {}]

\* A slider with no `change` listener that acts on the slider or on the video
\* (video.muted and video.volume at their defaults), in a player as
\* #createVideo leaves it: no source, the video marked "blank".  `seek` is the
\* argument of the setTime call that the last change evaluation led to, null
\* when it led to none.
NoListener ==
    [volumeListener |-> FALSE, muted |-> FALSE, volume |-> Num(1),
     sources |-> <<>>, blank |-> TRUE, timeListener |-> FALSE, seek |-> Null,
     freezeControls |-> 0,
     other |-> [rawValue |-> Num(0), ghostSliderValue |-> Null, sliding |-> FALSE],
     infos |-> [b \in InfoBoxes |-> NewInfoBox],
     controls |-> [shown |-> FALSE, hideControlsTimeout |-> 0, timers |-> {}],
     paused |-> TRUE, thumbnail |-> FALSE, videoInfo |-> FALSE]

\* freezeControls, unfreezeControls, get controlsFrozen
freezeControls(plr) == [plr EXCEPT !.freezeControls = @ + 1]

\* unfreezeControls that leaves the counter as it is.
unfreezeControlsForgets(plr) == plr

unfreezeControls(plr) == [plr EXCEPT !.freezeControls = @ - 1]

controlsFrozen(plr) == plr.freezeControls > 0

\* setTime: video.currentTime = seconds
setTime(plr, seconds) == [plr EXCEPT !.seek = seconds]

\* The `change` listener of the player's time slider that does not look at
\* controlsFrozen.
timeChangeListenerWhileFrozen(plr, evs) ==
    IF evs = <<>> THEN plr
    ELSE IF evs[1].ghostValue # Null THEN plr
    ELSE IF ~evs[1].valueHasChanged THEN plr
    ELSE setTime(plr, evs[1].value)

\* The `change` listener of the player's time slider, for the events of one
\* change evaluation (none, or one `change`).
timeChangeListener(plr, evs) ==
    IF evs = <<>> THEN plr
    ELSE IF controlsFrozen(plr) THEN plr
    ELSE IF evs[1].ghostValue # Null THEN plr
    ELSE IF ~evs[1].valueHasChanged THEN plr
    ELSE setTime(plr, evs[1].value)

\* setVolume: returns when the video is muted; video.volume takes a number in
\* [0, 1] and throws for any other, which ends the listener.
setVolume(plr, volume) ==
    IF plr.muted THEN plr
    ELSE IF Le(Num(0), volume) /\ Le(volume, Num(1)) THEN [plr EXCEPT !.volume = volume]
    ELSE plr

\* #onChange with the dispatch of its event to the `change` listener of the
\* player's volume slider, which runs inside dispatchEvent, after #lastChange
\* has been written: it returns for an event with a ghostValue or without
\* valueHasChanged (the controls are never frozen while the volume slider
\* changes), sets `volumeSlider.value = 0` when the video is muted and the
\* event's value is above 0, which evaluates the change again before the outer
\* dispatch returns, and calls setVolume otherwise.
RECURSIVE changeEvaluation(_, _, _, _, _)

\* #onChange that writes #lastChange when dispatchEvent has returned.
changeEvaluationRecordsLast(raw, ghost, rng, lc, plr) ==
    Only({IF \/ res.events = <<>>
             \/ ~plr.volumeListener
             \/ controlsFrozen(plr)
             \/ res.events[1].ghostValue # Null
             \/ ~res.events[1].valueHasChanged
          THEN [rawValue |-> raw, lastChange |-> res.lastChange,
                events |-> res.events, player |-> plr]
          ELSE IF plr.muted /\ Lt(Num(0), res.events[1].value)
          THEN Only({[rawValue |-> nested.rawValue, lastChange |-> res.lastChange,
                      events |-> res.events \o nested.events, player |-> nested.player]
                     : nested \in {changeEvaluation(valueToRaw(Num(0), rng), ghost, rng,
                                                     lc, plr)}})
          ELSE [rawValue |-> raw, lastChange |-> res.lastChange,
                events |-> res.events, player |-> setVolume(plr, res.events[1].value)]
          : res \in {onChangeResult(raw, ghost, rng, lc)}})

\* #onChange whose volume listener returns on a muted video without setting
\* the slider to 0.
changeEvaluationLeavesValue(raw, ghost, rng, lc, plr) ==
    Only({IF plr.timeListener
          THEN [rawValue |-> raw, lastChange |-> res.lastChange,
                events |-> res.events, player |-> timeChangeListener(plr, res.events)]
          ELSE IF \/ res.events = <<>>
             \/ ~plr.volumeListener
             \/ controlsFrozen(plr)
             \/ res.events[1].ghostValue # Null
             \/ ~res.events[1].valueHasChanged
             \/ (plr.muted /\ Lt(Num(0), res.events[1].value))
          THEN [rawValue |-> raw, lastChange |-> res.lastChange,
                events |-> res.events, player |-> plr]
          ELSE [rawValue |-> raw, lastChange |-> res.lastChange,
                events |-> res.events, player |-> setVolume(plr, res.events[1].value)]
          : res \in {onChangeResult(raw, ghost, rng, lc)}})

changeEvaluation(raw, ghost, rng, lc, plr) ==
    Only({IF plr.timeListener
          THEN [rawValue |-> raw, lastChange |-> res.lastChange,
                events |-> res.events, player |-> timeChangeListener(plr, res.events)]
          ELSE IF \/ res.events = <<>>
             \/ ~plr.volumeListener
             \/ controlsFrozen(plr)
             \/ res.events[1].ghostValue # Null
             \/ ~res.events[1].valueHasChanged
          THEN [rawValue |-> raw, lastChange |-> res.lastChange,
                events |-> res.events, player |-> plr]
          ELSE IF plr.muted /\ Lt(Num(0), res.events[1].value)
          THEN Only({[rawValue |-> nested.rawValue, lastChange |-> nested.lastChange,
                      events |-> res.events \o nested.events, player |-> nested.player]
                     : nested \in {changeEvaluation(valueToRaw(Num(0), rng), ghost, rng,
                                                     res.lastChange, plr)}})
          ELSE [rawValue |-> raw, lastChange |-> res.lastChange,
                events |-> res.events, player |-> setVolume(plr, res.events[1].value)]
          : res \in {onChangeResult(raw, ghost, rng, lc)}})

RangeEvent(rng) == [type |-> "range", value |-> getRange(rng)]
ResizeEvent == [type |-> "resize"]

\* #onChange as a step, for the #rawValue `raw` its caller has just stored: the
\* styles, #lastChange and the dispatched events, the latter after the events
\* `before` that the same handler dispatched earlier; #rawValue and the video
\* as the listener has left them.
onChangeWith(raw, ghost, rng, before, plr) ==
    \E res \in {changeEvaluation(raw, ghost, rng, lastChange, [plr EXCEPT !.seek = Null])} :
        /\ rawValue' = res.rawValue
        /\ containerBBox' = CachedValue(containerBBox)
        /\ style' = resizeElements(res.rawValue, ghost, CachedValue(containerBBox))
        /\ lastChange' = res.lastChange
        /\ events' = before \o res.events
        /\ player' = res.player

onChange(raw, ghost, rng, before) == onChangeWith(raw, ghost, rng, before, player)

Record(name, arg) ==
    op' = [name |-> name, arg |-> arg, again |-> (op.name = name /\ op.arg = arg)]

-----------------------------------------------------------------------------
(* OpenVideoPlayerSlider: construction. *)

\* The constructor on a container that is not in the document yet (the player
\* builds both of its sliders on freshly created elements): the fields, then
\* range(0, 100, 1), whose change evaluation fetches the container's box.
Init ==
    LET res == onChangeResult(Num(0), Null, DefaultRange, Null)
    IN  /\ range = DefaultRange
        /\ rawValue = Num(0)
        /\ ghostSliderValue = Null
        /\ lastChange = res.lastChange
        /\ sliding = FALSE
        /\ elemBox = ZeroBox
        /\ containerBBox = ZeroBox
        /\ sliderPaddingBBox = Null
        /\ style = resizeElements(Num(0), Null, ZeroBox)
        /\ events = <<RangeEvent(DefaultRange)>> \o res.events
        /\ op = [name |-> "constructor", arg |-> Null, again |-> FALSE]
        /\ player = NoListener

\* The player's volume slider as the player has built it, on a container that
\* is not in the document yet: the constructor, range(0, 1, .05), the `change`
\* listener, then `value = 1`, which the listener passes on to setVolume.
VolumeRange == <<Num(0), Num(1), Frac(1, 20)>>

\* Arguments of range() and of `rawValue =` on the volume slider.
VolumeRanges == {VolumeRange, <<Num(0), Num(1), Frac(1, 2)>>}
VolumeRawInputs == {Frac(37, 100)}
\* What a script writes to a property of a Range object it has received.
WrittenValue == Num(7)

InitVolume ==
    LET built == onChangeResult(Num(0), Null, DefaultRange, Null)
        ranged == onChangeResult(Num(0), Null, VolumeRange, built.lastChange)
        res == changeEvaluation(valueToRaw(Num(1), VolumeRange), Null, VolumeRange,
                                ranged.lastChange,
                                [NoListener EXCEPT !.volumeListener = TRUE])
    IN  /\ range = VolumeRange
        /\ rawValue = res.rawValue
        /\ ghostSliderValue = Null
        /\ lastChange = res.lastChange
        /\ sliding = FALSE
        /\ elemBox = ZeroBox
        /\ containerBBox = ZeroBox
        /\ sliderPaddingBBox = Null
        /\ style = resizeElements(res.rawValue, Null, ZeroBox)
        /\ events = res.events
        /\ op = [name |-> "value", arg |-> Num(1), again |-> FALSE]
        /\ player = res.player

-----------------------------------------------------------------------------
(* OpenVideoPlayerSlider: the operations. *)

\* range() that keeps the absolute value, by moving #rawValue to the value's
\* place in the new Range.
RangeKeepsValue(rng) ==
    \E raw \in {clamp(Div(Sub(value, rng[1]), Sub(rng[2], rng[1])), Num(0), Num(1))} :
        /\ range' = rng
        /\ onChange(raw, ghostSliderValue, rng, <<RangeEvent(rng)>>)
        /\ Record("range", rng)
        /\ UNCHANGED <<ghostSliderValue, sliding, elemBox, sliderPaddingBBox>>

\* range() that runs the change evaluation before it dispatches `range`.
RangeNotifiesLast(rng) ==
    \E res \in {onChangeResult(rawValue, ghostSliderValue, rng, lastChange)} :
        /\ range' = rng
        /\ containerBBox' = CachedValue(containerBBox)
        /\ style' = resizeElements(rawValue, ghostSliderValue, CachedValue(containerBBox))
        /\ lastChange' = res.lastChange
        /\ events' = res.events \o <<RangeEvent(rng)>>
        /\ Record("range", rng)
        /\ UNCHANGED <<rawValue, ghostSliderValue, sliding, elemBox, sliderPaddingBBox, player>>

\* range(min, max, step)
Range(rng) ==
    /\ range' = rng
    /\ onChange(rawValue, ghostSliderValue, rng, <<RangeEvent(rng)>>)
    /\ Record("range", rng)
    /\ UNCHANGED <<ghostSliderValue, sliding, elemBox, sliderPaddingBBox>>

\* set rawValue
SetRawValue(newRawValue) ==
    \E raw \in {clamp(newRawValue, Num(0), Num(1))} :
        /\ onChange(raw, ghostSliderValue, range, <<>>)
        /\ Record("rawValue", newRawValue)
        /\ UNCHANGED <<range, ghostSliderValue, sliding, elemBox, sliderPaddingBBox>>

\* set value that hides the ghost.
SetValueClearsGhost(newValue) ==
    \E raw \in {valueToRaw(newValue, range)} :
        /\ ghostSliderValue' = Null
        /\ onChange(raw, Null, range, <<>>)
        /\ Record("value", newValue)
        /\ UNCHANGED <<range, sliding, elemBox, sliderPaddingBBox>>

\* set value
SetValue(newValue) ==
    \E raw \in {valueToRaw(newValue, range)} :
        /\ onChange(raw, ghostSliderValue, range, <<>>)
        /\ Record("value", newValue)
        /\ UNCHANGED <<range, ghostSliderValue, sliding, elemBox, sliderPaddingBBox>>

\* The player's durationchange listener on its time slider: freezeControls(),
\* timeSlider.range(0, duration, 1 / 60),
\* timeSlider.value = clamp(currentTime, 0, duration), unfreezeControls().
DurationChange(duration, currentTime) ==
    \E rng \in {<<Num(0), duration, Frac(1, 60)>>} :
    \E res1 \in {changeEvaluation(rawValue, ghostSliderValue, rng, lastChange,
                                   freezeControls([player EXCEPT !.seek = Null]))} :
    \E res2 \in {changeEvaluation(valueToRaw(clamp(currentTime, Num(0), duration), rng),
                                   ghostSliderValue, rng, res1.lastChange, res1.player)} :
        /\ range' = rng
        /\ rawValue' = res2.rawValue
        /\ containerBBox' = CachedValue(containerBBox)
        /\ style' = resizeElements(res2.rawValue, ghostSliderValue, CachedValue(containerBBox))
        /\ lastChange' = res2.lastChange
        /\ events' = <<RangeEvent(rng)>> \o res1.events \o res2.events
        /\ Record("durationchange", duration)
        /\ player' = unfreezeControls(res2.player)
        /\ UNCHANGED <<ghostSliderValue, sliding, elemBox, sliderPaddingBBox>>

\* The player's timeupdate listener on its time slider: freezeControls(),
\* timeSlider.value = video.currentTime, unfreezeControls().
TimeUpdate(currentTime) ==
    \E res \in {changeEvaluation(valueToRaw(currentTime, range), ghostSliderValue, range,
                                  lastChange, freezeControls([player EXCEPT !.seek = Null]))} :
        /\ rawValue' = res.rawValue
        /\ containerBBox' = CachedValue(containerBBox)
        /\ style' = resizeElements(res.rawValue, ghostSliderValue, CachedValue(containerBBox))
        /\ lastChange' = res.lastChange
        /\ events' = res.events
        /\ Record("timeupdate", currentTime)
        /\ player' = unfreezeControls(res.player)
        /\ UNCHANGED <<range, ghostSliderValue, sliding, elemBox, sliderPaddingBBox>>

\* #onKeyDown for Home (0), End (1) and the digit keys (digit / 10):
\* timeSlider.rawValue = newRawValue
KeySeek(newRawValue) == SetRawValue(newRawValue)

\* changeTimeBy(seconds): time.value += seconds
ChangeTimeBy(seconds) == SetValue(Add(value, Num(seconds)))

\* A script calls getRange() and keeps the object.
GetRange ==
    /\ events' = <<>>
    /\ Record("getRange", getRangeObject(range))
    /\ UNCHANGED <<range, rawValue, ghostSliderValue, lastChange, sliding, elemBox,
                   containerBBox, sliderPaddingBBox, style, player>>

\* A script writes newValue to the property i (min, max, step) of the object
\* it has just received, from getRange() or as the payload of a `range` event
\* (range() builds the payload with getRange(), line 370).  The write reaches
\* #range when the object is #range itself.
WriteRangeObject(i, newValue) ==
    \E obj \in {IF op.name = "getRange" THEN op.arg ELSE getRangeObject(range)} :
        /\ op.name \in {"getRange", "range"}
        /\ range' = IF obj.internal THEN [range EXCEPT ![i] = newValue] ELSE range
        /\ events' = <<>>
        /\ Record("write", [obj.value EXCEPT ![i] = newValue])
        /\ UNCHANGED <<rawValue, ghostSliderValue, lastChange, sliding, elemBox,
                       containerBBox, sliderPaddingBBox, style, player>>

\* toggleMuted on the player of the volume slider: video.muted is flipped, then
\* `volumeSlider.value = 0` when muted and `= video.volume` when not.
ToggleMuted ==
    \E plr \in {[player EXCEPT !.muted = ~player.muted]} :
    \E newValue \in {IF plr.muted THEN Num(0) ELSE plr.volume} :
        /\ player.volumeListener
        /\ onChangeWith(valueToRaw(newValue, range), ghostSliderValue, range, <<>>, plr)
        /\ Record("toggleMuted", Null)
        /\ UNCHANGED <<range, ghostSliderValue, sliding, elemBox, sliderPaddingBBox>>

\* movePointer that leaves #ghostSliderValue as it is.
movePointerKeepsGhost(clientX) ==
    \E raw \in {LET bbox == CachedValue(containerBBox)
                     progress == clientX - Left(bbox)
                 IN  clamp(Div(Num(progress), Num(Width(bbox))), Num(0), Num(1))} :
        /\ ghostSliderValue' = ghostSliderValue
        /\ onChange(raw, ghostSliderValue, range, <<>>)

\* movePointer without the clamp.
movePointerUnclamped(clientX) ==
    \E raw \in {LET bbox == CachedValue(containerBBox)
                     progress == clientX - Left(bbox)
                 IN  Div(Num(progress), Num(Width(bbox)))} :
        /\ ghostSliderValue' = Null
        /\ onChange(raw, Null, range, <<>>)

\* movePointer: the commit of a pointer position.
movePointer(clientX) ==
    \E raw \in {LET bbox == CachedValue(containerBBox)
                     progress == clientX - Left(bbox)
                 IN  clamp(Div(Num(progress), Num(Width(bbox))), Num(0), Num(1))} :
        /\ ghostSliderValue' = Null
        /\ onChange(raw, Null, range, <<>>)

\* movePointer in a step in which the player becomes plr.
movePointerWith(clientX, plr) ==
    \E raw \in {LET bbox == CachedValue(containerBBox)
                     progress == clientX - Left(bbox)
                 IN  clamp(Div(Num(progress), Num(Width(bbox))), Num(0), Num(1))} :
        /\ ghostSliderValue' = Null
        /\ onChangeWith(raw, Null, range, <<>>, plr)

\* onDrag that hides the ghost.
OnDragClearsGhost ==
    /\ elemBox # ZeroBox
    /\ sliding' = TRUE
    /\ ghostSliderValue' = Null
    /\ onChange(rawValue, Null, range, <<>>)
    /\ Record("dragstart", Null)
    /\ UNCHANGED <<range, elemBox, sliderPaddingBBox>>

\* onDrag: mousedown or touchstart on the slider's pointer, which a slider that
\* is not displayed does not receive.
OnDrag ==
    /\ elemBox # ZeroBox
    /\ sliding' = TRUE
    /\ events' = <<>>
    /\ Record("dragstart", Null)
    /\ UNCHANGED <<range, rawValue, ghostSliderValue, lastChange, elemBox,
                   containerBBox, sliderPaddingBBox, style, player>>

\* onDragEnd that leaves the class "sliding" on the container.
OnDragEndKeepsSliding ==
    /\ sliding' = sliding
    /\ events' = <<>>
    /\ Record("dragend", Null)
    /\ UNCHANGED <<range, rawValue, ghostSliderValue, lastChange, elemBox,
                   containerBBox, sliderPaddingBBox, style, player>>

\* onDragEnd: mouseup, touchend or touchcancel anywhere in the document.
OnDragEnd ==
    /\ sliding' = FALSE
    /\ events' = <<>>
    /\ Record("dragend", Null)
    /\ UNCHANGED <<range, rawValue, ghostSliderValue, lastChange, elemBox,
                   containerBBox, sliderPaddingBBox, style, player>>

\* onMove without the test of the class "sliding".
OnMoveAlways(clientX) ==
    /\ movePointer(clientX)
    /\ Record(IF sliding THEN "move" ELSE "move-ignored", Null)
    /\ UNCHANGED <<range, sliding, elemBox, sliderPaddingBBox>>

\* onMove: mousemove or touchmove anywhere in the document.
OnMove(clientX) ==
    /\ IF sliding
       THEN movePointer(clientX)
       ELSE /\ events' = <<>>
            /\ UNCHANGED <<rawValue, ghostSliderValue, lastChange, containerBBox, style, player>>
    /\ Record(IF sliding THEN "move" ELSE "move-ignored", Null)
    /\ UNCHANGED <<range, sliding, elemBox, sliderPaddingBBox>>

\* onClick: a click on the padded region, which lies where the region is displayed.
OnClick(clientX) ==
    /\ Left(elemBox) <= clientX
    /\ clientX < Right(elemBox)
    /\ movePointer(clientX)
    /\ Record("click", Null)
    /\ UNCHANGED <<range, sliding, elemBox, sliderPaddingBBox>>

\* changeGhostSlider: mousemove, mouseenter, mouseover (pointer over the padded
\* region) or mouseleave (pointer anywhere else) on a displayed slider.
ChangeGhostSlider(clientX, clientY) ==
    \E ghost \in {LET bbox == CachedValue(containerBBox)
                       progress == clientX - Left(bbox)
                   IN  IF isPointWithinBBox(CachedValue(sliderPaddingBBox), clientX, clientY)
                       THEN clamp(Div(Num(progress), Num(Width(bbox))), Num(0), Num(1))
                       ELSE Null} :
        /\ elemBox # ZeroBox
        /\ sliderPaddingBBox' = CachedValue(sliderPaddingBBox)
        /\ ghostSliderValue' = ghost
        /\ onChange(rawValue, ghost, range, <<>>)
        /\ Record("hover", Null)
        /\ UNCHANGED <<range, sliding, elemBox>>

\* A resize whose CachedBBox observers only clear #bbox, leaving the fetch to
\* the next read (#onResize reads the container's box at once).
ResizeInvalidatesOnly(box) ==
    /\ <<Width(box), Height(box)>> # <<Width(elemBox), Height(elemBox)>>
    /\ elemBox' = box
    /\ containerBBox' = box
    /\ sliderPaddingBBox' = Null
    /\ style' = resizeElements(rawValue, ghostSliderValue, box)
    /\ events' = <<ResizeEvent>>
    /\ Record("resize", Null)
    /\ UNCHANGED <<range, rawValue, ghostSliderValue, lastChange, sliding, player>>

\* A resize that hides the ghost.
ResizeClearsGhost(box) ==
    /\ <<Width(box), Height(box)>> # <<Width(elemBox), Height(elemBox)>>
    /\ elemBox' = box
    /\ containerBBox' = box
    /\ sliderPaddingBBox' = box
    /\ ghostSliderValue' = Null
    /\ style' = resizeElements(rawValue, Null, box)
    /\ events' = <<ResizeEvent>>
    /\ Record("resize", Null)
    /\ UNCHANGED <<range, rawValue, lastChange, sliding, player>>

\* The slider changes size (it is attached, hidden, shown or laid out anew): the
\* ResizeObservers of the two CachedBBoxes re-fetch their boxes, then the
\* slider's own observer runs #onResize.
Resize(box) ==
    /\ <<Width(box), Height(box)>> # <<Width(elemBox), Height(elemBox)>>
    /\ elemBox' = box
    /\ containerBBox' = box
    /\ sliderPaddingBBox' = box
    /\ style' = resizeElements(rawValue, ghostSliderValue, box)
    /\ events' = <<ResizeEvent>>
    /\ Record("resize", Null)
    /\ UNCHANGED <<range, rawValue, ghostSliderValue, lastChange, sliding, player>>

\* The slider moves without changing size (scrolling, a sibling's layout): no
\* observer is notified.
Move(box) ==
    /\ box # elemBox
    /\ <<Width(box), Height(box)>> = <<Width(elemBox), Height(elemBox)>>
    /\ elemBox' = box
    /\ events' = <<>>
    /\ Record("scroll", Null)
    /\ UNCHANGED <<range, rawValue, ghostSliderValue, lastChange, sliding,
                   containerBBox, sliderPaddingBBox, style, player>>

-----------------------------------------------------------------------------
(* OpenVideoPlayerUI: the sources of the video. *)

NoError == ""

\* Array.prototype.find / indexOf on #videoSources by src: the first index, 0
\* when there is none.
IndexOfSrc(sources, src) ==
    IF \E i \in DOMAIN sources : sources[i].src = src
    THEN CHOOSE i \in DOMAIN sources :
             /\ sources[i].src = src
             /\ \A j \in 1 .. i - 1 : sources[j].src # src
    ELSE 0

\* Array.prototype.splice(i, 1)
Splice(sources, i) == [j \in 1 .. Len(sources) - 1 |-> sources[IF j < i THEN j ELSE j + 1]]

\* addSource(url, type): the player after the call and the error it threw.
addSource(plr, source) ==
    IF IndexOfSrc(plr.sources, source.src) # 0
    THEN [player |-> plr, threw |-> "Source already exists"]
    ELSE [player |-> [plr EXCEPT !.sources = Append(@, source), !.blank = FALSE],
          threw |-> NoError]

\* removeSource(url, type)
removeSource(plr, src, type) ==
    \* the conjunction is evaluated left to right: no source is read at index 0
    IF ~(IndexOfSrc(plr.sources, src) # 0 /\ plr.sources[IndexOfSrc(plr.sources, src)].type = type)
    THEN [player |-> plr, threw |-> "Source doesn't exist"]
    ELSE Only({[player |-> [plr EXCEPT !.sources = rest, !.blank = @ \/ Len(rest) = 0],
                threw |-> NoError]
               : rest \in {Splice(plr.sources, IndexOfSrc(plr.sources, src))}})

\* resetVideo: #videoSources.forEach(source => removeSource(source.src,
\* source.type)).  forEach visits the indices in ascending order and reads the
\* array at each visit, so it sees what the removals before have left: after
\* the removal at index k (counted from 1 here) the next visit is at k + 1 of
\* the shortened array, and an index past its end is not visited.
RECURSIVE forEachRemove(_, _)
forEachRemove(plr, k) ==
    IF k > Len(plr.sources)
    THEN [player |-> plr, threw |-> NoError]
    ELSE Only({IF res.threw # NoError THEN res ELSE forEachRemove(res.player, k + 1)
               : res \in {removeSource(plr, plr.sources[k].src, plr.sources[k].type)}})

resetVideo(plr) == forEachRemove(plr, 1)

\* The loop of play over info.sources, from the k-th on: addSource until one throws.
RECURSIVE addSources(_, _, _)
addSources(plr, sources, k) ==
    IF k > Len(sources)
    THEN [player |-> plr, threw |-> NoError]
    ELSE Only({IF res.threw # NoError THEN res ELSE addSources(res.player, sources, k + 1)
               : res \in {addSource(plr, sources[k])}})

\* A call on the player that leaves its sliders alone, with its outcome.
PlayerCall(name, args, res) ==
    /\ player' = res.player
    /\ events' = <<>>
    /\ Record(name, [args |-> args, threw |-> res.threw])
    /\ UNCHANGED <<range, rawValue, ghostSliderValue, lastChange, sliding, elemBox,
                   containerBBox, sliderPaddingBBox, style>>

AddSource(source) == PlayerCall("addSource", source, addSource(player, source))

RemoveSource(src, type) ==
    PlayerCall("removeSource", [src |-> src, type |-> type], removeSource(player, src, type))

ResetVideo == PlayerCall("resetVideo", Null, resetVideo(player))


-----------------------------------------------------------------------------
(* A second slider in the same document (player.other), as the player's volume
   slider is to its time slider.  It is displayed at OtherBox, right of the
   track, and its pointer handlers are those of the slider above, on its own
   three fields. *)

OtherBox == <<110, 0, 10, 2>>

otherMovePointer(o, clientX) ==
    [o EXCEPT !.rawValue = clamp(Div(Num(clientX - Left(OtherBox)), Num(Width(OtherBox))),
                                 Num(0), Num(1)),
              !.ghostSliderValue = Null]

otherOnDrag(o) == [o EXCEPT !.sliding = TRUE]

otherOnDragEnd(o) == [o EXCEPT !.sliding = FALSE]

otherOnMove(o, clientX) == IF o.sliding THEN otherMovePointer(o, clientX) ELSE o

otherChangeGhostSlider(o, clientX, clientY) ==
    [o EXCEPT !.ghostSliderValue =
        IF isPointWithinBBox(OtherBox, clientX, clientY)
        THEN clamp(Div(Num(clientX - Left(OtherBox)), Num(Width(OtherBox))), Num(0), Num(1))
        ELSE Null]

\* An event on an element of the second slider: only its listener runs.
OtherEvent(name, o) ==
    /\ player' = [player EXCEPT !.other = o]
    /\ events' = <<>>
    /\ Record(name, Null)
    /\ UNCHANGED <<range, rawValue, ghostSliderValue, lastChange, sliding, elemBox,
                   containerBBox, sliderPaddingBBox, style>>

\* mousedown or touchstart on the second slider's pointer
OtherDrag == OtherEvent("other-dragstart", otherOnDrag(player.other))

\* click on the second slider's padded region
OtherClick(clientX) ==
    /\ Left(OtherBox) <= clientX
    /\ clientX < Right(OtherBox)
    /\ OtherEvent("other-click", otherMovePointer(player.other, clientX))

\* mousemove, mouseenter, mouseover or mouseleave on the second slider
OtherHover(clientX, clientY) ==
    OtherEvent("other-hover", otherChangeGhostSlider(player.other, clientX, clientY))

\* mousemove or touchmove on the document: the onMove of both sliders, each
\* with the event's clientX (for a touch, that of e.touches[0]).
DocumentMove(clientX) ==
    \E plr \in {[player EXCEPT !.other = otherOnMove(@, clientX)]} :
        /\ IF sliding
           THEN movePointerWith(clientX, plr)
           ELSE /\ events' = <<>>
                /\ player' = plr
                /\ UNCHANGED <<rawValue, ghostSliderValue, lastChange, containerBBox, style>>
        /\ Record(IF sliding THEN "move" ELSE "move-ignored", Null)
        /\ UNCHANGED <<range, sliding, elemBox, sliderPaddingBBox>>

\* mouseup, touchend or touchcancel on the document: the onDragEnd of both sliders.
DocumentDragEnd ==
    /\ sliding' = FALSE
    /\ player' = [player EXCEPT !.other = otherOnDragEnd(@)]
    /\ events' = <<>>
    /\ Record("dragend", Null)
    /\ UNCHANGED <<range, rawValue, ghostSliderValue, lastChange, elemBox,
                   containerBBox, sliderPaddingBBox, style>>

-----------------------------------------------------------------------------
(* OpenVideoPlayerInfoBox. *)

\* #clearTimeout
clearTimeout(box) ==
    IF box.hideTimeout # 0
    THEN [box EXCEPT !.timers = @ \ {box.hideTimeout}, !.hideTimeout = 0]
    ELSE box

\* #hide
hide(box) == [box EXCEPT !.hideTimeout = 0, !.shown = FALSE]

\* show that does not clear the timer of the show before.
showKeepsTimeout(box, id) ==
    [box EXCEPT !.shown = TRUE, !.hideTimeout = id, !.timers = @ \cup {id}]

\* show, setTimeout returning id
show(box, id) ==
    [clearTimeout(box) EXCEPT !.shown = TRUE, !.hideTimeout = id, !.timers = @ \cup {id}]

\* forceHide
forceHide(box) == hide(clearTimeout(box))

\* The ids of no pending timer.
FreeTimerIds == TimerIds \ UNION {player.infos[b].timers : b \in InfoBoxes}

\* showVolumeInfo, showTimeInfo: show() on an info box.
InfoShow(b) ==
    /\ FreeTimerIds # {}
    /\ \E id \in {CHOOSE i \in FreeTimerIds : \A j \in FreeTimerIds : i <= j} :
           PlayerCall("show", b, [player |-> [player EXCEPT !.infos[b] = show(@, id)],
                                  threw |-> NoError])

InfoForceHide(b) ==
    PlayerCall("forceHide", b, [player |-> [player EXCEPT !.infos[b] = forceHide(@)],
                                threw |-> NoError])

\* The browser runs a pending timer of the box b: #hide.
InfoTimerFire(b) ==
    \E id \in player.infos[b].timers :
        PlayerCall("hide", b,
                   [player |-> [player EXCEPT !.infos[b] = hide([@ EXCEPT !.timers = @ \ {id}])],
                    threw |-> NoError])

-----------------------------------------------------------------------------
(* OpenVideoPlayerUI: the controls and their hide timer. *)

\* The box of the controls' root, and the pointer positions of the events on
\* the container: on the box's edges, inside and outside.
ControlsBBox == <<0, 1, 3, 1>>
ControlsXs == {0, 1, 3}
ControlsYs == {0, 1, 2}

\* showControls for an event with the coordinates clientX, clientY (both 0
\* for an event without, whose clientX is undefined); the class "sliding" of
\* the time slider is the variable `sliding`, and setTimeout returns the
\* smallest id of no pending timer.
showControls(plr, clientX, clientY, timeSliding) ==
    LET cleared == IF plr.controls.hideControlsTimeout # 0
                   THEN [plr.controls EXCEPT !.timers = @ \ {plr.controls.hideControlsTimeout},
                                             !.hideControlsTimeout = 0]
                   ELSE plr.controls
        id == CHOOSE i \in TimerIds \ cleared.timers :
                  \A j \in TimerIds \ cleared.timers : i <= j
    IN  IF \/ /\ clientX # 0
              /\ clientY # 0
              /\ clientX >= Left(ControlsBBox)
              /\ clientY >= Top(ControlsBBox)
              /\ clientX < Right(ControlsBBox)
              /\ clientY < Bottom(ControlsBBox)
           \/ plr.paused
           \/ timeSliding
           \/ plr.other.sliding
        THEN [plr EXCEPT !.controls = [cleared EXCEPT !.shown = TRUE]]
        ELSE [plr EXCEPT !.controls = [cleared EXCEPT !.shown = TRUE,
                                                      !.hideControlsTimeout = id,
                                                      !.timers = @ \cup {id}]]

\* mousemove, mouseleave or click on the player's container
ContainerMouse(clientX, clientY) ==
    PlayerCall("mouse", <<clientX, clientY>>,
               [player |-> showControls(player, clientX, clientY, sliding),
                threw |-> NoError])

\* The video starts or resumes playing, and its `play` event.
VideoPlay ==
    /\ player.paused
    /\ PlayerCall("play-event", Null,
                  [player |-> showControls([player EXCEPT !.paused = FALSE], 0, 0, sliding),
                   threw |-> NoError])

\* The video pauses, and its `pause` event.
VideoPause ==
    /\ ~player.paused
    /\ PlayerCall("pause-event", Null,
                  [player |-> showControls([player EXCEPT !.paused = TRUE], 0, 0, sliding),
                   threw |-> NoError])

\* The browser runs a pending hide timer: root.classList.remove("show").
ControlsTimerFire ==
    \E id \in player.controls.timers :
        PlayerCall("controls-timer", id,
                   [player |-> [player EXCEPT !.controls.shown = FALSE,
                                              !.controls.timers = @ \ {id}],
                    threw |-> NoError])

\* The thumbnail's and the video info's class "show".
showThumbnailNot(plr) == plr

showThumbnail(plr) == [plr EXCEPT !.thumbnail = TRUE]

hideThumbnail(plr) == [plr EXCEPT !.thumbnail = FALSE]

\* classList.toggle("show", force): forced for a boolean, flipped for undefined.
toggleVideoInfo(plr, force) ==
    [plr EXCEPT !.videoInfo = IF force = "undefined" THEN ~@ ELSE force = "true"]

\* #startPlaying: the thumbnail is hidden, then video.play() either resolves,
\* after the video has left the paused state and its `play` event has run
\* showControls, or rejects with NotAllowedError and leaves the video as it is.
\* The two updates that follow set the icons of buttons.
startPlaying(plr, resolves, timeSliding) ==
    IF resolves
    THEN [player |-> IF plr.paused
                     THEN showControls([hideThumbnail(plr) EXCEPT !.paused = FALSE],
                                       0, 0, timeSliding)
                     ELSE hideThumbnail(plr),
          threw |-> NoError]
    ELSE [player |-> hideThumbnail(plr), threw |-> "NotAllowedError"]

\* play(videoInfo, playOptions): resetVideo(), then addSource for each of
\* info.sources, where an error ends the call; then #startPlaying() if asked
\* for, whose error is caught and turns playImmediately off; the thumbnail if
\* playImmediately is off; and the video info.  outcome is that of
\* video.play(), "none" if it is not called.
play(plr, sources, playOptions, resolves, timeSliding) ==
    Only({IF attached.threw # NoError
          THEN [player |-> attached.player, threw |-> attached.threw, outcome |-> "none"]
          ELSE IF playOptions.playImmediately
          THEN Only({[player |-> toggleVideoInfo(IF started.threw # NoError
                                                 THEN showThumbnail(started.player)
                                                 ELSE started.player,
                                                 playOptions.showVideoInfo),
                      threw |-> NoError,
                      outcome |-> IF started.threw # NoError THEN "rejected" ELSE "resolved"]
                     : started \in {startPlaying(attached.player, resolves, timeSliding)}})
          ELSE [player |-> toggleVideoInfo(showThumbnail(attached.player),
                                           playOptions.showVideoInfo),
                threw |-> NoError, outcome |-> "none"]
          : attached \in {Only({IF cleared.threw # NoError
                                THEN cleared
                                ELSE addSources(cleared.player, sources, 1)
                                : cleared \in {resetVideo(plr)}})}})

Play(sources, playOptions, resolves) ==
    \E res \in {play(player, sources, playOptions, resolves, sliding)} :
        /\ resolves \/ res.outcome = "rejected"
        /\ player' = res.player
        /\ events' = <<>>
        /\ Record("play", [args |-> sources, threw |-> res.threw,
                           playOptions |-> playOptions, outcome |-> res.outcome])
        /\ UNCHANGED <<range, rawValue, ghostSliderValue, lastChange, sliding, elemBox,
                       containerBBox, sliderPaddingBBox, style>>

\* The host is done with the slider and drops its references to it.
\* CachedBBox and the slider hold their ResizeObservers in local constants of
\* their constructors and have no method that disconnects them, and the
\* listeners on `document` are never removed: discarding is all a host can do,
\* and it changes nothing in the slider.  Every observer and listener stays
\* registered, so the operations that follow still reach the slider.
Discard ==
    /\ op.name # "discard"
    /\ events' = <<>>
    /\ Record("discard", Null)
    /\ UNCHANGED <<range, rawValue, ghostSliderValue, lastChange, sliding, elemBox,
                   containerBBox, sliderPaddingBBox, style, player>>

-----------------------------------------------------------------------------
(* The specifications. *)

RangeCall == \E rng \in ValidRanges : Range(rng)
RangeCallInvalid == \E rng \in InvalidRanges : Range(rng)
RawValueSet == \E x \in RawInputs : SetRawValue(x)
ValueSet == \E v \in ValueInputs : SetValue(v)
PointerMove == \E x \in ClientXs : OnMove(x)
PointerClick == \E x \in ClientXs : OnClick(x)
Hover == \E x \in ClientXs : \E y \in ClientYs : ChangeGhostSlider(x, y)
Resized == \E box \in Boxes : Resize(box)
Scrolled == \E box \in Boxes : Move(box)
DurationChanged == \E d \in Durations : \E t \in CurrentTimes : DurationChange(d, t)

\* Every caller, including one that passes range() an invalid Range, and the
\* player's durationchange listener.
Next ==
    \/ RangeCall
    \/ RangeCallInvalid
    \/ RawValueSet
    \/ ValueSet
    \/ OnDrag
    \/ OnDragEnd
    \/ PointerMove
    \/ PointerClick
    \/ Hover
    \/ Resized
    \/ Scrolled
    \/ DurationChanged

Spec == Init /\ [][Next]_vars

\* Callers that keep range()'s precondition, min < max and step > 0.
NextValid ==
    \/ RangeCall
    \/ RawValueSet
    \/ ValueSet
    \/ OnDrag
    \/ OnDragEnd
    \/ PointerMove
    \/ PointerClick
    \/ Hover
    \/ Resized
    \/ Scrolled

SpecValid == Init /\ [][NextValid]_vars

\* The player's volume slider: the player's mute button, the pointer, and a
\* page script that holds the slider (controlsElement("volumeSlider")).
VolumeRangeCall == \E rng \in VolumeRanges : Range(rng)
VolumeRawValueSet == \E x \in VolumeRawInputs : SetRawValue(x)
RangeObjectWritten == \E i \in 1 .. 3 : WriteRangeObject(i, WrittenValue)

NextVolume ==
    \/ ToggleMuted
    \/ VolumeRangeCall
    \/ VolumeRawValueSet
    \/ GetRange
    \/ RangeObjectWritten
    \/ OnDrag
    \/ OnDragEnd
    \/ PointerMove
    \/ PointerClick
    \/ Hover
    \/ Resized

SpecVolume == InitVolume /\ [][NextVolume]_vars

\* A slider with the default Range on a track 100 px wide, and its pointer.
TrackClick == \E x \in TrackXs : OnClick(x)
TrackMove == \E x \in TrackXs : OnMove(x)
TrackHover == \E x \in TrackXs : \E y \in TrackYs : ChangeGhostSlider(x, y)
TrackResized == \E box \in TrackBoxes : Resize(box)

NextTrack ==
    \/ OnDrag
    \/ OnDragEnd
    \/ TrackMove
    \/ TrackClick
    \/ TrackHover
    \/ TrackResized
    \/ Discard

SpecTrack == Init /\ [][NextTrack]_vars

\* The player's time slider as the player has built it: the constructor, then
\* the `change` listener.  The user's keys (Home, End, 5; J and ArrowRight),
\* the pointer on a track 100 px wide, and the video's events.
InitTime ==
    LET res == onChangeResult(Num(0), Null, DefaultRange, Null)
    IN  /\ range = DefaultRange
        /\ rawValue = Num(0)
        /\ ghostSliderValue = Null
        /\ lastChange = res.lastChange
        /\ sliding = FALSE
        /\ elemBox = ZeroBox
        /\ containerBBox = ZeroBox
        /\ sliderPaddingBBox = Null
        /\ style = resizeElements(Num(0), Null, ZeroBox)
        /\ events = <<RangeEvent(DefaultRange)>> \o res.events
        /\ op = [name |-> "constructor", arg |-> Null, again |-> FALSE]
        /\ player = [NoListener EXCEPT !.timeListener = TRUE]

KeyRawValues == {Num(0), Frac(5, 10), Num(1)}
KeySeconds == {-10, 5}

KeyPressed == \E raw \in KeyRawValues : KeySeek(raw)
TimeChangedBy == \E seconds \in KeySeconds : ChangeTimeBy(seconds)
TimeUpdated == \E t \in CurrentTimes : TimeUpdate(t)

NextTime ==
    \/ KeyPressed
    \/ TimeChangedBy
    \/ TimeUpdated
    \/ DurationChanged
    \/ OnDrag
    \/ OnDragEnd
    \/ TrackMove
    \/ TrackClick
    \/ TrackHover
    \/ TrackResized

SpecTime == InitTime /\ [][NextTime]_vars

\* Two sliders of one document and the pointer events of both.
OtherClicked == \E x \in TrackXs : OtherClick(x)
OtherHovered == \E x \in TrackXs : \E y \in TrackYs : OtherHover(x, y)
DocumentMoved == \E x \in TrackXs : DocumentMove(x)

NextPair ==
    \/ OnDrag
    \/ TrackClick
    \/ TrackHover
    \/ TrackResized
    \/ OtherDrag
    \/ OtherClicked
    \/ OtherHovered
    \/ DocumentMoved
    \/ DocumentDragEnd

SpecPair == Init /\ [][NextPair]_vars

\* The player's three info boxes and the browser's timers; a pending timer
\* runs in the end (after 100 ms).
InfoShown == \E b \in InfoBoxes : InfoShow(b)
InfoForceHidden == \E b \in InfoBoxes : InfoForceHide(b)
InfoTimerFired == \E b \in InfoBoxes : InfoTimerFire(b)

NextInfo ==
    \/ InfoShown
    \/ InfoForceHidden
    \/ InfoTimerFired

SpecInfo ==
    /\ Init
    /\ [][NextInfo]_vars
    /\ \A b \in InfoBoxes : WF_vars(InfoTimerFire(b))

\* The player's controls: the mouse on the container, the video's play and
\* pause, drags of the time slider and of the volume slider, and the timer.
ContainerMoused == \E x \in ControlsXs : \E y \in ControlsYs : ContainerMouse(x, y)

NextControls ==
    \/ ContainerMoused
    \/ VideoPlay
    \/ VideoPause
    \/ ControlsTimerFire
    \/ TrackResized
    \/ OnDrag
    \/ OtherDrag
    \/ DocumentDragEnd

SpecControls == Init /\ [][NextControls]_vars

\* The sources of the player's video: three sources with different URLs, and
\* video infos of up to two of them.
Types == {"video/mp4", "video/webm"}
Sources ==
    {[src |-> "a.mp4", type |-> "video/mp4"], [src |-> "b.mp4", type |-> "video/mp4"],
     [src |-> "c.webm", type |-> "video/webm"]}
Infos ==
    {<<>>} \cup {<<s>> : s \in Sources}
           \cup {<<s, t>> : <<s, t>> \in {st \in Sources \X Sources : st[1].src # st[2].src}}

SourceAdded == \E source \in Sources : AddSource(source)
SourceRemoved == \E source \in Sources : \E type \in Types : RemoveSource(source.src, type)
PlayOptions == [playImmediately : BOOLEAN, showVideoInfo : {"true", "false", "undefined"}]
Played ==
    \E sources \in Infos : \E playOptions \in PlayOptions : \E resolves \in BOOLEAN :
        Play(sources, playOptions, resolves)

NextSources ==
    \/ SourceAdded
    \/ SourceRemoved
    \/ ResetVideo
    \/ Played

SpecSources == Init /\ [][NextSources]_vars

\* clamp on its own.  The arguments are the numbers the program passes it: a
\* quotient by a box's width (NaN and the infinities for a width of zero), a
\* value set by a caller, and the bounds 0, 1, a Range's min and max and a
\* video's duration, in either order.
ClampXs == {NaN, NInf, Num(-1), Num(0), Frac(1, 2), Num(1), Num(2), PInf}
ClampBoundaries == {Num(-1), Num(0), Num(1), Num(2)}

InitClamp ==
    /\ \E x \in ClampXs : \E lo \in ClampBoundaries : \E hi \in ClampBoundaries :
           op = [name |-> "arguments", arg |-> <<x, lo, hi>>, again |-> FALSE]
    /\ range = DefaultRange
    /\ rawValue = Num(0)
    /\ ghostSliderValue = Null
    /\ lastChange = Null
    /\ sliding = FALSE
    /\ elemBox = ZeroBox
    /\ containerBBox = Null
    /\ sliderPaddingBBox = Null
    /\ style = Null
    /\ events = <<>>
    /\ player = NoListener

\* clamp(x, lo, hi), and clamp applied to its result with the same boundaries.
ClampCall ==
    \E once \in {clamp(op.arg[1], op.arg[2], op.arg[3])} :
    \E twice \in {clamp(once, op.arg[2], op.arg[3])} :
        /\ op.name = "arguments"
        /\ op' = [name |-> "clamp", arg |-> op.arg \o <<once, twice>>, again |-> FALSE]
        /\ UNCHANGED <<range, rawValue, ghostSliderValue, lastChange, sliding, elemBox,
                       containerBBox, sliderPaddingBBox, style, events, player>>

NextClamp == ClampCall

SpecClamp == InitClamp /\ [][NextClamp]_vars

-----------------------------------------------------------------------------
(* The vocabulary of the properties. *)

\* The Range invariant: min < max and step > 0, all three of them numbers.
ValidRange(rng) ==
    Lt(rng[1], rng[2]) /\ Lt(Num(0), rng[3]) /\ IsFinite(rng[1]) /\ IsFinite(rng[2]) /\ IsFinite(rng[3])

\* The `change` events among the events of one operation.
Changes(evs) == {evs[i] : i \in {j \in DOMAIN evs : evs[j].type = "change"}}

\* x clamped to [lo, hi], for lo <= hi.
Clamped(x, lo, hi) == IF Lt(x, lo) THEN lo ELSE IF Lt(hi, x) THEN hi ELSE x

\* Quantization: the multiple of step nearest to x (halves upwards), clamped to
\* the Range.
Quantize(x, rng) ==
    Clamped(Mul(MathRound(Div(x, rng[3])), rng[3]), rng[1], rng[2])

\* The point of the Range at the fraction r.
AtFraction(r, rng) == Add(rng[1], Mul(r, Sub(rng[2], rng[1])))

\* x is a multiple of step.
MultipleOf(x, step) == Div(x, step)[2] = 1

InUnit(r) == Le(Num(0), r) /\ Le(r, Num(1))

Committed == op.name \in {"move", "click"}

\* The fraction of the box bbox at the pointer coordinate x.
PointerFraction(x, bbox) ==
    Clamped(Div(Num(x - Left(bbox)), Num(Width(bbox))), Num(0), Num(1))

-----------------------------------------------------------------------------
(* The properties. *)

\* C1: every `change` event differs, in value or in ghostValue, from the pair
\* the previous notification recorded (the dedup contract).
C1_EveryChangeDiffers ==
    [][\A e \in Changes(events') :
          lastChange = Null \/ <<e.value, e.ghostValue>> # lastChange]_vars

\* C2: in every `change` event valueHasChanged tells whether the value differs
\* from the last notified value (or there was none), ghostValueHasChanged
\* whether the ghostValue differs from the last notified one, and one of the
\* two flags is set.
C2_FlagsTellTheDifference ==
    [][\A e \in Changes(events') :
          /\ e.valueHasChanged <=> (lastChange = Null \/ e.value # lastChange[1])
          /\ e.ghostValueHasChanged <=> (lastChange = Null \/ e.ghostValue # lastChange[2])
          /\ (e.valueHasChanged \/ e.ghostValueHasChanged)]_vars

\* C3: with a valid Range, `value` is the quantized point of the Range at
\* RawPosition, and lies in [min, max].
C3_ValueDerivedAndInRange ==
    ValidRange(range) =>
        /\ value = Quantize(AtFraction(rawValue, range), range)
        /\ Le(range[1], value)
        /\ Le(value, range[2])

\* C4 as stated: with a valid Range, `value` read after `value = v` is the
\* quantized v.
C4_RoundTripOnce ==
    (op.name = "value" /\ ValidRange(range)) => value = Quantize(op.arg, range)

\* C4, amended: with a valid Range, `value` read after `value = v` is v
\* quantized twice, which is the quantized v when min and max are multiples of
\* step.
C4_RoundTrip ==
    (op.name = "value" /\ ValidRange(range)) =>
        /\ value = Quantize(Quantize(op.arg, range), range)
        /\ (MultipleOf(range[1], range[3]) /\ MultipleOf(range[2], range[3]))
               => value = Quantize(op.arg, range)

\* C4: `value = 0.52` under Range (0, 1, 0.05) reads back 0.5.
C4_Witness ==
    /\ op.name = "value"
    /\ op.arg = Frac(13, 25)
    /\ range = <<Num(0), Num(1), Frac(1, 20)>>
    /\ value = Frac(1, 2)

\* C5: range() leaves RawPosition, GhostPosition and the sliding flag as they
\* were, and afterwards `value` is the quantized point of the new Range at the
\* unchanged RawPosition.
C5_RangeKeepsFraction ==
    [][op'.name = "range" =>
          /\ rawValue' = rawValue
          /\ ghostSliderValue' = ghostSliderValue
          /\ sliding' = sliding
          /\ (ValidRange(range') /\ InUnit(rawValue))
                 => value' = Quantize(AtFraction(rawValue, range'), range')]_vars

\* C5: RawPosition 0.5, then range(0, 100, 1): the value has become 50.
C5_Witness ==
    /\ op.name = "range"
    /\ range = DefaultRange
    /\ rawValue = Frac(1, 2)
    /\ value = Num(50)
    /\ \E e \in Changes(events) : e.valueHasChanged /\ e.value = Num(50)

\* C6: a hover update leaves RawPosition, Range, the sliding flag and `value`
\* as they were, and a `change` event it causes has valueHasChanged = false.
C6_HoverKeepsValue ==
    [][op'.name = "hover" =>
          /\ rawValue' = rawValue
          /\ range' = range
          /\ sliding' = sliding
          /\ value' = value
          /\ \A e \in Changes(events') : ~e.valueHasChanged]_vars

\* C7: after a pointer commit (a pointer-move while sliding, a click),
\* GhostPosition is absent and `ghostValue` is null.
C7_CommitClearsGhost ==
    Committed => (ghostSliderValue = Null /\ ghostValue = Null)

\* C7: a click has cleared a ghost that was shown.
C7_Witness ==
    /\ op.name = "click"
    /\ ghostSliderValue = Null
    /\ \E e \in Changes(events) : e.ghostValueHasChanged /\ e.ghostValue = Null

\* C8: the second of two identical `value = v` in a row dispatches no `change`
\* event (and the first at most one).
C8_SecondSetIsSilent ==
    op.name = "value" =>
        /\ Cardinality(Changes(events)) <= 1
        /\ op.again => Changes(events) = {}

\* C9: RawPosition is a number in [0, 1], and `rawValue = x` stores x clamped
\* to [0, 1].
C9_RawInUnit ==
    /\ InUnit(rawValue)
    /\ op.name = "rawValue" => rawValue = Clamped(op.arg, Num(0), Num(1))

\* C10: range() with min >= max or step <= 0 installs no Range and dispatches
\* no event.
C10_InvalidRangeRejected ==
    [][(op'.name = "range" /\ ~ValidRange(op'.arg)) =>
          (range' = range /\ events' = <<>>)]_vars

\* C11: in every reachable state the stored Range has min < max and step > 0.
C11_RangeInvariant ==
    Lt(range[1], range[2]) /\ Lt(Num(0), range[3])

\* C12: a range(min, max, step) call, those of the constructor and of the
\* durationchange listener included, dispatches one `range` event, whose payload is the new Range (the
\* arguments of the call), and dispatches it first: a `change` event of the
\* same call comes after it.
C12_RangeEventFirst ==
    op.name \in {"constructor", "range", "durationchange"} =>
        /\ Len(events) >= 1
        /\ events[1] = [type |-> "range", value |-> range]
        /\ \A i \in 2 .. Len(events) : events[i].type = "change"
        /\ op.name = "range" => range = op.arg
        /\ op.name = "constructor" => range = DefaultRange

\* C12: a range() call that changed the value: `range`, then `change`.
C12_Witness ==
    /\ op.name = "range"
    /\ Len(events) = 2
    /\ events[1] = [type |-> "range", value |-> op.arg]
    /\ events[2].type = "change"
    /\ events[2].valueHasChanged

\* C13: a pointer-move while sliding, and a click whether or not the slider is
\* sliding, at any pointer x, sets RawPosition to
\* clamp((x - box.left) / box.width, 0, 1) for the cached container box; with
\* Range (0, 100, 1) a commit at fraction 0.37 makes the value 37 and, the last
\* notified value being another one, dispatches a `change` event with
\* valueHasChanged = true.
C13_PointerCommit ==
    [][\A x \in ClientXs \cup TrackXs :
          (OnClick(x) \/ (sliding /\ OnMove(x))) =>
              \A f \in {Clamped(Div(Num(x - Left(containerBBox)), Num(Width(containerBBox))),
                                Num(0), Num(1))} :
                  /\ rawValue' = f
                  /\ (range = DefaultRange /\ f = Frac(37, 100)) =>
                         /\ value' = Num(37)
                         /\ (lastChange = Null \/ lastChange[1] # Num(37)) =>
                                \E e \in Changes(events') :
                                    e.valueHasChanged /\ e.value = Num(37)]_vars

\* C13: a click, with no drag under way, 37 px into the track 100 px wide.
C13_Witness ==
    /\ op.name = "click"
    /\ ~sliding
    /\ containerBBox = TrackBox
    /\ range = DefaultRange
    /\ rawValue = Frac(37, 100)
    /\ value = Num(37)
    /\ \E e \in Changes(events) : e.valueHasChanged /\ e.value = Num(37)

\* C14 as stated: a hover update at (x, y) makes GhostPosition
\* clamp((x - box.left) / box.width, 0, 1) if left < x < right and
\* top < y < bottom for the padded region's box, and absent for every other
\* point, the points on the box's edges among them.
C14_HoverStrictlyWithin ==
    [][\A x \in TrackXs : \A y \in TrackYs :
          ChangeGhostSlider(x, y) =>
              \A pad \in {CachedValue(sliderPaddingBBox)} :
                  ghostSliderValue' =
                      IF /\ Left(pad) < x /\ x < Right(pad)
                         /\ Top(pad) < y /\ y < Bottom(pad)
                      THEN Clamped(Div(Num(x - Left(containerBBox)), Num(Width(containerBBox))),
                                   Num(0), Num(1))
                      ELSE Null]_vars

\* C14, amended: a hover update at (x, y) makes GhostPosition
\* clamp((x - box.left) / box.width, 0, 1) if left <= x < right and
\* top <= y < bottom for the padded region's box (its left and top edges
\* belong to it, its right and bottom edges do not), and absent for every
\* other point.
C14_HoverMapping ==
    [][\A x \in TrackXs : \A y \in TrackYs :
          ChangeGhostSlider(x, y) =>
              \A pad \in {CachedValue(sliderPaddingBBox)} :
                  ghostSliderValue' =
                      IF /\ Left(pad) <= x /\ x < Right(pad)
                         /\ Top(pad) <= y /\ y < Bottom(pad)
                      THEN Clamped(Div(Num(x - Left(containerBBox)), Num(Width(containerBBox))),
                                   Num(0), Num(1))
                      ELSE Null]_vars

\* C14: a hover on the left edge of the track has put the ghost at 0.
C14_Witness ==
    /\ op.name = "hover"
    /\ sliderPaddingBBox = TrackBox
    /\ containerBBox = TrackBox
    /\ ghostSliderValue = Num(0)
    /\ ghostValue = Num(0)

\* C15: `sliding` is false after construction; a drag-start makes it true, a
\* drag-end or cancel makes it false, and every other operation (pointer-move,
\* click, hover, the setters, range(), durationchange, resize, scroll) leaves
\* it as it was.
C15_SlidingLifecycle ==
    /\ ~sliding
    /\ [][sliding' = IF op'.name = "dragstart" THEN TRUE
                     ELSE IF op'.name = "dragend" THEN FALSE
                     ELSE sliding]_vars

\* C15: the slider is still sliding after a range() call made during a drag.
C15_Witness ==
    /\ sliding
    /\ op.name = "range"
    /\ op.arg # DefaultRange

\* C16: at the end of every operation, also of one whose `change` listener has
\* set the slider again during the dispatch, LastNotifiedChange is the
\* slider's current (value, ghostValue) pair.
C16_LastChangeIsCurrent ==
    lastChange = <<value, ghostValue>>

\* C16: the video is muted, a click on the volume slider has committed a value
\* above 0, the listener has set the slider back to 0 during the dispatch, and
\* two `change` events have been dispatched, the nested one last.
C16_Witness ==
    /\ op.name = "click"
    /\ player.muted
    /\ Len(events) = 2
    /\ Lt(Num(0), events[1].value)
    /\ events[2].value = Num(0)
    /\ value = Num(0)
    /\ lastChange = <<Num(0), Null>>

\* C17: a write to min, max or step of an object returned by getRange(), or of
\* the payload of a `range` event, leaves the slider's Range as it was, and
\* with it what `value`, `ghostValue` and getRange() read.
C17_GetRangeIsACopy ==
    [][op'.name = "write" =>
          /\ range' = range
          /\ getRange(range') = getRange(range)
          /\ value' = value
          /\ ghostValue' = ghostValue]_vars

\* C17: a script has written 7 to `max` of the object getRange() returned, the
\* slider showing a ghost; the Range is still (0, 1, 0.05).
C17_Witness ==
    /\ op.name = "write"
    /\ op.arg = <<Num(0), Num(7), Frac(1, 20)>>
    /\ range = VolumeRange
    /\ ghostSliderValue # Null

\* C18: a newly constructed slider has Range (0, 100, 1), RawPosition 0, no
\* GhostPosition, sliding false and value 0, and its construction has
\* dispatched one `change` event, with both flags true, and recorded
\* LastNotifiedChange = (0, absent).
C18_Construction ==
    op.name = "constructor" =>
        /\ range = DefaultRange
        /\ getRange(range) = <<Num(0), Num(100), Num(1)>>
        /\ rawValue = Num(0)
        /\ ghostSliderValue = Null
        /\ ghostValue = Null
        /\ ~sliding
        /\ value = Num(0)
        /\ Len(events) = 2
        /\ events[2] = [type |-> "change", value |-> Num(0), ghostValue |-> Null,
                        valueHasChanged |-> TRUE, ghostValueHasChanged |-> TRUE]
        /\ lastChange = <<Num(0), Null>>

\* C18: the slider as constructed.
C18_Witness ==
    /\ op.name = "constructor"
    /\ Cardinality(Changes(events)) = 1
    /\ lastChange = <<Num(0), Null>>
    /\ elemBox = ZeroBox

\* C19: a resize signal dispatches one `resize` event and nothing else, and
\* leaves RawPosition, GhostPosition, Range, the sliding flag and
\* LastNotifiedChange as they were.
C19_ResizeOnlyResizes ==
    [][op'.name = "resize" =>
          /\ events' = <<[type |-> "resize"]>>
          /\ rawValue' = rawValue
          /\ ghostSliderValue' = ghostSliderValue
          /\ range' = range
          /\ sliding' = sliding
          /\ lastChange' = lastChange]_vars

\* C19: the slider has been resized with a ghost shown.
C19_Witness ==
    /\ op.name = "resize"
    /\ events = <<[type |-> "resize"]>>
    /\ ghostSliderValue # Null
    /\ lastChange[2] # Null
    /\ elemBox # ZeroBox

\* C20: a CachedBBox holds the box measured at the later of its first read and
\* the last resize signal.  After construction the container's cache holds the
\* box the constructor read and the padded region's cache is empty; a resize
\* signal puts the element's box of that moment into both caches, read or not;
\* a hover update, the only reader of the padded region's cache, fills it with
\* the element's box when it is empty and leaves it otherwise; every other
\* step, reads of the container's cache and moves of the element included,
\* leaves the caches as they are.
C20_CacheHoldsLastMeasure ==
    /\ containerBBox = elemBox /\ sliderPaddingBBox = Null
    /\ [][IF op'.name = "resize"
          THEN containerBBox' = elemBox' /\ sliderPaddingBBox' = elemBox'
          ELSE /\ containerBBox' = containerBBox
               /\ sliderPaddingBBox' =
                      IF op'.name = "hover" /\ sliderPaddingBBox = Null
                      THEN elemBox ELSE sliderPaddingBBox]_vars

\* C20: the slider has moved since its last resize, and a hover update has
\* read the box measured at that resize.
C20_Witness ==
    /\ op.name = "hover"
    /\ sliderPaddingBBox # Null
    /\ sliderPaddingBBox # elemBox
    /\ containerBBox = sliderPaddingBBox
    /\ Width(sliderPaddingBBox) = Width(elemBox)

\* C21: once the host has discarded the slider, no resize callback reaches it.
C21_NoCallbackAfterDiscard ==
    [][op.name = "discard" => op'.name # "resize"]_vars

\* C22: a pointer commit or a hover update made with a cached container box of
\* zero width leaves RawPosition a number in [0, 1] and GhostPosition absent
\* or a number in [0, 1].
C22_DegenerateGeometry ==
    (op.name \in {"move", "click", "hover"} /\ Width(containerBBox) = 0) =>
        /\ InUnit(rawValue)
        /\ ghostSliderValue = Null \/ InUnit(ghostSliderValue)

\* C23: a pointer-move delivered while the slider is not sliding leaves
\* RawPosition, GhostPosition, Range and LastNotifiedChange as they were and
\* dispatches no event.
C23_MoveWhileIdle ==
    [][\A x \in TrackXs :
          (~sliding /\ OnMove(x)) =>
              /\ UNCHANGED <<rawValue, ghostSliderValue, range, lastChange>>
              /\ events' = <<>>]_vars

\* C23: a pointer-move that was ignored, over a track on which it would have
\* committed a position and hidden the ghost that is still shown.
C23_Witness ==
    /\ op.name = "move-ignored"
    /\ ~sliding
    /\ containerBBox = TrackBox
    /\ ghostSliderValue # Null
    /\ events = <<>>

\* C24: drag-start and drag-end leave RawPosition, GhostPosition, Range and
\* LastNotifiedChange as they were and dispatch no `change` event, so the
\* value after the drag's end is the value before it.
C24_DragChangesOnlySliding ==
    [][(OnDrag \/ OnDragEnd) =>
          /\ UNCHANGED <<rawValue, ghostSliderValue, range, lastChange>>
          /\ Changes(events') = {}
          /\ value' = value]_vars

\* C24: a drag has ended on the value 37 that a pointer-move committed, with
\* the ghost shown.
C24_Witness ==
    /\ op.name = "dragend"
    /\ ~sliding
    /\ rawValue = Frac(37, 100)
    /\ lastChange = <<Num(37), ghostValue>>
    /\ ghostSliderValue # Null

\* C25: a pointer-move at x during a drag leaves RawPosition at the fraction of
\* x in the container box, GhostPosition absent and LastNotifiedChange the
\* pair of the new value, whatever the moves before it were; and when the
\* slider is already in the state a pointer-move at x leaves it in, a further
\* pointer-move at x changes nothing and dispatches no `change` event.
C25_MovesLastWriteWins ==
    [][\A x \in TrackXs :
          (sliding /\ OnMove(x)) =>
              \A f \in {PointerFraction(x, containerBBox)} :
                  /\ rawValue' = f
                  /\ ghostSliderValue' = Null
                  /\ lastChange' = <<Value(f, range), Null>>
                  /\ (op.name = "move" /\ rawValue = f) =>
                         /\ UNCHANGED <<rawValue, ghostSliderValue, lastChange>>
                         /\ Changes(events') = {}]_vars

\* C26: only a hover update and a pointer commit (a click, a pointer-move
\* during a drag) change GhostPosition; range(), the two setters, a resize, a
\* scroll, drag-start, drag-end and an ignored pointer-move leave it as it was;
\* and ghostValue is null exactly when GhostPosition is absent.
C26_GhostFrame ==
    /\ [](ghostValue = Null <=> ghostSliderValue = Null)
    /\ [][op'.name \notin {"hover", "move", "click"} =>
              ghostSliderValue' = ghostSliderValue]_vars

\* C26: `value =` has changed the value while the ghost is shown, and the ghost
\* is still shown.
C26_Witness ==
    /\ op.name = "value"
    /\ ghostSliderValue # Null
    /\ ghostValue # Null
    /\ \E e \in Changes(events) : e.valueHasChanged /\ e.ghostValue = ghostValue

\* C27: the box a pointer commit or a hover update has read from the
\* container's GeometryCache is the element's bounding box at that moment.
C27_CacheIsCurrent ==
    op.name \in {"move", "click", "hover"} => containerBBox = elemBox

\* C28: for all x, lo and hi, clamp(clamp(x, lo, hi), lo, hi) == clamp(x, lo, hi),
\* and for lo <= hi the result lies in [lo, hi].
C28_ClampIdempotent ==
    op.name = "clamp" =>
        /\ StrictEq(op.arg[5], op.arg[4])
        /\ Le(op.arg[2], op.arg[3]) => (Le(op.arg[2], op.arg[4]) /\ Le(op.arg[4], op.arg[3]))

\* C29: after resetVideo() the source list is empty and the video is marked
\* blank, whatever the number of sources before; and play(info), which resets
\* first, does not fail with "Source already exists" and ends with exactly
\* info's sources attached.
C29_ResetRemovesAll ==
    /\ op.name = "resetVideo" => (player.sources = <<>> /\ player.blank)
    /\ op.name = "play" =>
           /\ op.arg.threw # "Source already exists"
           /\ player.sources = op.arg.args

\* C30: whenever a keyboard seek (Home, End, a digit key, changeTimeBy) or a
\* pointer commit (click, pointer-move during a drag) changes the time slider's
\* value, setTime is called with the new value, whether or not the ghost is
\* shown.
C30_CommittedTimeSeeks ==
    [][(op'.name \in {"rawValue", "value", "click", "move"} /\ value' # value) =>
          player'.seek = value']_vars

\* C31: after every operation on the player's volume slider, a muted video
\* means that the slider's value is 0; and no operation that ends with the
\* video muted changes video.volume.
C31_MutedShowsNoVolume ==
    /\ [](player.muted => value = Num(0))
    /\ [][player'.muted => player'.volume = player.volume]_vars

\* The `change` events of one operation, in the order of their dispatch.
IsChange(e) == e.type = "change"
ChangeSeq(evs) == SelectSeq(evs, IsChange)

\* C32: an update of the time slider from the video, by the timeupdate or the
\* durationchange listener, leads to no setTime call.
C32_SyncDoesNotSeek ==
    [][op'.name \in {"timeupdate", "durationchange"} => player'.seek = Null]_vars

\* C32: a timeupdate has changed the slider's value with the ghost hidden, the
\* `change` event on which the listener seeks when the controls are not frozen.
C32_Witness ==
    /\ op.name = "timeupdate"
    /\ player.timeListener
    /\ \E e \in Changes(events) : e.valueHasChanged /\ e.ghostValue = Null
    /\ player.seek = Null

\* C34: #freezeControls is never negative, and between the operations, when
\* no timeupdate or durationchange listener is running, the controls are not
\* frozen: every freezeControls() of a listener has had its unfreezeControls().
C34_FreezeBalanced ==
    /\ player.freezeControls >= 0
    /\ ~controlsFrozen(player)

\* C34: the durationchange listener has run, for a clip of two seconds, and
\* has left the controls not frozen.
C34_Witness ==
    /\ op.name = "durationchange"
    /\ op.arg = Num(2)
    /\ events # <<>>
    /\ player.freezeControls = 0

\* C33: a hover update leads to no setTime call.
C33_HoverDoesNotSeek ==
    [][op'.name = "hover" => player'.seek = Null]_vars

\* C35: an operation on the volume slider dispatches at most two `change`
\* events, the second from within the listener's run on the first; and when
\* the listener has met a muted video and an event value above 0 (ghost
\* hidden, value changed), the operation has ended with exactly one nested
\* `change`, which carries the value 0, the slider's final value.
C35_NestedChangeEnds ==
    \A ch \in {ChangeSeq(events)} :
        /\ Len(ch) <= 2
        /\ (/\ player.muted
            /\ ch # <<>>
            /\ ch[1].ghostValue = Null
            /\ ch[1].valueHasChanged
            /\ Lt(Num(0), ch[1].value)) =>
               /\ Len(ch) = 2
               /\ ch[2].value = Num(0)
               /\ value = Num(0)

\* C35: a click on the muted volume slider, in its middle: `change` with
\* value 1/2, then the nested `change` with value 0.
C35_Witness ==
    /\ op.name = "click"
    /\ player.muted
    /\ Len(ChangeSeq(events)) = 2
    /\ ChangeSeq(events)[1].value = Frac(1, 2)
    /\ ChangeSeq(events)[2].value = Num(0)
    /\ value = Num(0)

\* C36: a drag-start, click or hover on one of two sliders leaves RawPosition,
\* GhostPosition and the sliding flag of the other as they were, and no event
\* changes these fields of both sliders, except a drag-end, which may clear the
\* sliding flag of both and changes nothing else.
C36_SlidersIndependent ==
    [][/\ op'.name \in {"dragstart", "click", "hover"} => player'.other = player.other
       /\ op'.name \in {"other-dragstart", "other-click", "other-hover"} =>
              UNCHANGED <<rawValue, ghostSliderValue, sliding>>
       /\ (/\ <<rawValue, ghostSliderValue, sliding>>' # <<rawValue, ghostSliderValue, sliding>>
           /\ player'.other # player.other) =>
              /\ op'.name = "dragend"
              /\ UNCHANGED <<rawValue, ghostSliderValue>>
              /\ player'.other = [player.other EXCEPT !.sliding = FALSE]]_vars

\* C37: an info box has at most one hide timer pending, it is shown exactly
\* when one is pending, forceHide() leaves it hidden with none pending, and a
\* shown box whose timer is id is in the end hidden or has, by another
\* show(), a timer other than id.
C37_InfoBoxTimer ==
    /\ [](\A b \in InfoBoxes :
             /\ Cardinality(player.infos[b].timers) <= 1
             /\ player.infos[b].shown <=> player.infos[b].timers # {}
             /\ (op.name = "forceHide" /\ op.arg.args = b) =>
                    (~player.infos[b].shown /\ player.infos[b].timers = {}))
    /\ \A b \in InfoBoxes : \A id \in TimerIds :
           (player.infos[b].shown /\ player.infos[b].timers = {id})
               ~> (~player.infos[b].shown \/ player.infos[b].timers # {id})

\* C37: show() on a box that is shown already has restarted its timer,
\* while another box is shown as well.
C37_Witness ==
    /\ op.name = "show"
    /\ op.again
    /\ player.infos[op.arg.args].shown
    /\ Cardinality(player.infos[op.arg.args].timers) = 1
    /\ \E b \in InfoBoxes \ {op.arg.args} : player.infos[b].shown

\* C38: at most one hide timer of the controls is pending, and the timer
\* never removes the controls' class "show" while the video is paused or
\* while the time slider or the volume slider is sliding.
C38_ControlsAutoHide ==
    /\ [](Cardinality(player.controls.timers) <= 1)
    /\ [][op'.name = "controls-timer" =>
              ~(player.paused \/ sliding \/ player.other.sliding)]_vars

\* C39: when play(info, {playImmediately: true}) calls video.play() and it
\* rejects, play() ends without an error, with the thumbnail shown and every
\* source of info attached; when video.play() resolves, play() ends with the
\* thumbnail hidden.
C39_AutoplayFallback ==
    op.name = "play" =>
        /\ op.arg.outcome = "rejected" =>
               /\ op.arg.playOptions.playImmediately
               /\ op.arg.threw = NoError
               /\ player.thumbnail
               /\ \A i \in 1 .. Len(op.arg.args) :
                      \E k \in 1 .. Len(player.sources) : player.sources[k] = op.arg.args[i]
        /\ op.arg.outcome = "resolved" => ~player.thumbnail

C39_Witness ==
    /\ op.name = "play"
    /\ op.arg.outcome = "rejected"
    /\ Len(op.arg.args) = 2
    /\ player.thumbnail

====
